---------------------------- MODULE Spec2Model ----------------------------
(***************************************************************************)
(* A model of package hrt (diamondburned/hrt): the HTTP-status-carrying    *)
(* error model, the decoders and encoders, and Handler.ServeHTTP.          *)
(*                                                                         *)
(* Five specifications share the module:                                   *)
(*   Spec     Handler.ServeHTTP as the steps Decode, Invoke, Encode        *)
(*   SpecErr  WrapHTTPError / OverrideHTTPError applied to bounded errors  *)
(*   SpecURL  urlDecoder.Decode over bounded structs and requests          *)
(*   SpecConc several ServeHTTP calls whose steps interleave               *)
(*   SpecTwice urlDecoder.Decode called twice on one request               *)
(***************************************************************************)
EXTENDS Integers, Sequences, FiniteSets, TLC

VARIABLES
    pc,      \* Spec: where the current ServeHTTP call stands
    cfg,     \* Spec: the call: request/response types, method, Opts
    log,     \* Spec: the collaborators the call invoked, in order
    w,       \* Spec: the http.ResponseWriter of the call
    werr,    \* Spec: the errors handed to ErrorWriter.WriteError, in order
    ret,     \* Spec: per phase run, what its collaborators returned
    rctx,    \* Spec: r.Context(), the context of the requests the router hands over
    ctx,     \* Spec: the local ctx of the call
    hctx,    \* Spec: the context the handler h was called with
    ustruct, \* SpecURL: the fields of the destination struct, in order
    ureq,    \* SpecURL: the request: path parameters and form
    uval,    \* SpecURL: the value of each field
    upos,    \* SpecURL: the field EachStructField visits next
    ureads,  \* SpecURL: per field, the request sources read for it, in order
    uerr,    \* SpecURL: what Decode returned ("running" until it returns)
    ufirst,  \* SpecTwice: the outcome of the first of two decodes of the request
    e0,      \* SpecErr: the error the calls started from
    ecur,    \* SpecErr: the error after the calls made so far
    ops,     \* SpecErr: the calls made so far, oldest first
    calls,   \* SpecConc: the ServeHTTP calls in flight, each with its own locals
    defaultOpts  \* SpecConc: the package variable DefaultOpts

serveVars == <<pc, cfg, log, w, werr, ret, rctx, ctx, hctx>>

errVars == <<e0, ecur, ops>>

urlVars == <<ustruct, ureq, uval, upos, ureads, uerr, ufirst>>

concVars == <<calls, defaultOpts>>

vars == <<pc, cfg, log, w, werr, ret, rctx, ctx, hctx, ustruct, ureq, uval, upos, ureads, uerr, ufirst, e0, ecur, ops, calls, defaultOpts>>

(***************************************************************************)
(* Bounds of the model.                                                    *)
(***************************************************************************)
MaxDepth == 3   \* longest cause chain of an input error of SpecErr
MaxChain == 2   \* longest cause chain of an error a collaborator returns in Spec
MaxOps == 2     \* longest sequence of Wrap/Override calls in SpecErr
MaxVal == 2     \* most validating wrappers around a decoder or an encoder
MaxFields == 2  \* most fields of a destination struct in SpecURL
MaxParams == 2  \* most path parameters of a request in SpecURL
MaxCalls == 2   \* the ServeHTTP calls in flight in SpecConc

(***************************************************************************)
(* Status codes the source names.                                          *)
(***************************************************************************)
StatusBadRequest == 400
StatusNotFound == 404
StatusMethodNotAllowed == 405
StatusInternalServerError == 500

Codes == {StatusBadRequest, StatusNotFound, StatusMethodNotAllowed,
          StatusInternalServerError}

(***************************************************************************)
(* Errors.  An error is its cause chain, outermost layer first; the nil    *)
(* error is the empty chain.  A layer is                                   *)
(*   plain    errors.New(msg) when last, a message-adding wrapper          *)
(*            (errors.Wrap(err, msg)) otherwise: no status code            *)
(*   wrapped  wrappedHTTPError{code, err}: err is the rest of the chain,   *)
(*            nil when the layer is last (WrapHTTPError(code, nil))        *)
(*   custom   a caller's own implementation of the HTTPError interface     *)
(*            without an Unwrap method: always the last layer              *)
(***************************************************************************)
NilErr == <<>>

PlainLayer(m) == [kind |-> "plain", code |-> 0, msg |-> m]

wrappedHTTPError(code, err) == <<[kind |-> "wrapped", code |-> code, msg |-> ""]>> \o err

ErrorsNew(m) == <<PlainLayer(m)>>

\* github.com/pkg/errors.Wrap(err, m): nil stays nil.
ErrorsWrap(err, m) == IF err = NilErr THEN NilErr ELSE <<PlainLayer(m)>> \o err

\* Whether a layer implements HTTPError (has an HTTPStatus method).
IsHTTPError(layer) == layer.kind \in {"wrapped", "custom"}

\* errors.Unwrap: the cause, nil when the error has no Unwrap method or no cause.
Unwrap(err) == IF err = NilErr THEN NilErr ELSE Tail(err)

\* errors.As(err, &httpErr): the position of the first error of the chain that
\* is an HTTPError, 0 when there is none.
AsHTTPError(err) ==
    LET hits == {i \in 1..Len(err) : IsHTTPError(err[i])}
    IN IF hits = {} THEN 0 ELSE CHOOSE i \in hits : \A j \in hits : i <= j

\* The error errors.As stored in httpErr: the chain from that position on.
HTTPErrOf(err) == SubSeq(err, AsHTTPError(err), Len(err))

HTTPStatus(httpErr) == httpErr[1].code

ErrorHTTPStatus(err, defaultCode) ==
    IF AsHTTPError(err) # 0 THEN HTTPStatus(HTTPErrOf(err)) ELSE defaultCode

\* The first version of WrapHTTPError wrapped whatever it was given.
WrapAlways(code, err) == wrappedHTTPError(code, err)

WrapHTTPError(code, err) ==
    IF AsHTTPError(err) # 0 THEN HTTPErrOf(err) ELSE wrappedHTTPError(code, err)

NewHTTPError(code, str) == wrappedHTTPError(code, ErrorsNew(str))

OverrideHTTPError(code, err) ==
    wrappedHTTPError(code,
        IF AsHTTPError(err) # 0 THEN Unwrap(HTTPErrOf(err)) ELSE err)

\* Error(): the message as the list of its parts, which the source joins
\* with ": ".  A wrappedHTTPError prints its code and then its cause with %s.
RECURSIVE ErrorString(_)
ErrorString(err) ==
    IF err = NilErr THEN <<"%!s(<nil>)">>
    ELSE LET l == err[1] IN
         CASE l.kind = "wrapped" -> <<l.code>> \o ErrorString(Tail(err))
           [] l.kind = "custom"  -> <<l.msg>>
           [] OTHER -> IF Len(err) = 1 THEN <<l.msg>>
                       ELSE <<l.msg>> \o ErrorString(Tail(err))

(***************************************************************************)
(* The bounded set of input errors: every chain of at most MaxDepth layers *)
(* with at most one coded layer, a custom HTTPError only as the last one.  *)
(***************************************************************************)
Msgs == {"boom"}

\* The codes the input errors carry; the calls attach any code of Codes.
CarriedCodes == {StatusNotFound, StatusInternalServerError}

Layers ==
    {PlainLayer(m) : m \in Msgs}
    \cup {[kind |-> "wrapped", code |-> c, msg |-> ""] : c \in CarriedCodes}
    \cup {[kind |-> "custom", code |-> c, msg |-> m] : c \in CarriedCodes, m \in Msgs}

WellFormedErr(err) ==
    /\ Cardinality({i \in 1..Len(err) : IsHTTPError(err[i])}) <= 1
    /\ \A i \in 1..Len(err) : err[i].kind = "custom" => i = Len(err)

ErrsUpTo(depth) ==
    UNION {{err \in [1..n -> Layers] : WellFormedErr(err)} : n \in 1..depth}

Errs == ErrsUpTo(MaxDepth)

ErrsOrNil == Errs \cup {NilErr}

\* The errors, nil included, that decoders, handlers and encoders return.
Outs == ErrsUpTo(MaxChain) \cup {NilErr}

Carries(err) == AsHTTPError(err) # 0

\* What a value's Validate method returns: nil, an uncoded error (the
\* examples' errors.New), or an error coded by the application.
ValOuts == {NilErr, ErrorsNew("invalid"), NewHTTPError(StatusNotFound, "invalid")}

(***************************************************************************)
(* SpecErr: a sequence of WrapHTTPError / OverrideHTTPError calls, each    *)
(* applied to the result of the one before.                                *)
(***************************************************************************)
ErrIdle ==
    /\ e0 = NilErr
    /\ ecur = NilErr
    /\ ops = <<>>

ServeIdle ==
    /\ pc = "off"
    /\ cfg = <<>>
    /\ log = <<>>
    /\ w = <<>>
    /\ werr = <<>>
    /\ ret = <<>>
    /\ rctx = <<>>
    /\ ctx = <<>>
    /\ hctx = <<>>

ConcIdle ==
    /\ calls = <<>>
    /\ defaultOpts = <<>>

URLIdle ==
    /\ ustruct = <<>>
    /\ ureq = <<>>
    /\ uval = <<>>
    /\ upos = 0
    /\ ureads = <<>>
    /\ uerr = <<>>
    /\ ufirst = <<>>

ErrInit ==
    /\ e0 \in ErrsOrNil
    /\ ecur = e0
    /\ ops = <<>>
    /\ ServeIdle
    /\ URLIdle
    /\ ConcIdle

ErrWrap(c) ==
    /\ Len(ops) < MaxOps
    /\ ecur' = WrapHTTPError(c, ecur)
    /\ ops' = Append(ops, [op |-> "wrap", code |-> c])
    /\ UNCHANGED <<e0, serveVars, urlVars, concVars>>

ErrOverride(c) ==
    /\ Len(ops) < MaxOps
    /\ ecur' = OverrideHTTPError(c, ecur)
    /\ ops' = Append(ops, [op |-> "override", code |-> c])
    /\ UNCHANGED <<e0, serveVars, urlVars, concVars>>

ErrNext ==
    \/ \E c \in Codes : ErrWrap(c)
    \/ \E c \in Codes : ErrOverride(c)

SpecErr == ErrInit /\ [][ErrNext]_vars

(***************************************************************************)
(* Decoders and encoders.  The value of Opts.Encoder is described by        *)
(*   dec     the innermost decoder: "url" (urlDecoder), "json" (jsonEncoder)*)
(*           or "method" (a MethodDecoder with the map reg)                 *)
(*   decVal  the number of validatorDecoder wrappers around it              *)
(*   enc     the innermost encoder: "json" (jsonEncoder) or "unencodable"   *)
(*           (UnencodableEncoder)                                           *)
(*   encVal  the number of validatorEncoder wrappers around it              *)
(* What the leaves return is the environment's: the request's content, the  *)
(* value's Validate method and encoding/json decide it.  A result is the    *)
(* returned error and the collaborators invoked on the way, in order.       *)
(***************************************************************************)
Ret(err, events) == [err |-> err, events |-> events]

\* urlDecoder.Decode and jsonEncoder.Decode as seen by their caller.
LeafDecode(kind, out) ==
    IF kind = "url" THEN Ret(out, <<"urlDecoder.Decode">>)
    ELSE Ret(out, <<"jsonEncoder.Decode">>)

\* A dispatch that forgets the "*" entry.
MethodDecoderNoWildcard(reg, method, out) ==
    IF method \in DOMAIN reg THEN LeafDecode(reg[method], out)
    ELSE Ret(WrapHTTPError(StatusMethodNotAllowed, ErrorsNew("method not allowed")),
             <<>>)

\* MethodDecoder.Decode.
MethodDecoderDecode(reg, method, out) ==
    IF method \in DOMAIN reg THEN LeafDecode(reg[method], out)
    ELSE IF "*" \in DOMAIN reg THEN LeafDecode(reg["*"], out)
    ELSE Ret(WrapHTTPError(StatusMethodNotAllowed, ErrorsNew("method not allowed")),
             <<>>)

InnerDecode(codec, method, out) ==
    IF codec.dec = "method" THEN MethodDecoderDecode(codec.reg, method, out)
    ELSE LeafDecode(codec.dec, out)

\* validatorDecoder.Decode, n wrappers deep: the inner decoder first, then
\* Validate if the value implements Validator.
RECURSIVE ValidatorDecode(_, _, _, _, _, _)
ValidatorDecode(n, codec, method, validates, out, valOut) ==
    IF n = 0 THEN InnerDecode(codec, method, out)
    ELSE LET r == ValidatorDecode(n - 1, codec, method, validates, out, valOut) IN
         IF r.err # NilErr THEN r
         ELSE IF validates THEN Ret(valOut, r.events \o <<"Validate">>)
         ELSE r

\* Opts.Encoder.Decode(r, &req).
EncoderDecode(codec, method, validates, out, valOut) ==
    ValidatorDecode(codec.decVal, codec, method, validates, out, valOut)

\* jsonEncoder.Encode and UnencodableEncoder.Encode.  wrote tells whether
\* the value reached the response body; ctype whether the content type was set.
InnerEncode(codec, out) ==
    IF codec.enc = "json"
    THEN [err |-> out, events |-> <<"jsonEncoder.Encode">>,
          ctype |-> TRUE, wrote |-> (out = NilErr)]
    ELSE [err |-> WrapHTTPError(StatusInternalServerError, ErrorsNew("cannot encode")),
          events |-> <<"UnencodableEncoder.Encode">>,
          ctype |-> FALSE, wrote |-> FALSE]

\* A validating encoder that encodes first and validates afterwards.
RECURSIVE ValidatorEncodeAfter(_, _, _, _, _)
ValidatorEncodeAfter(n, codec, validates, out, valOut) ==
    IF n = 0 THEN InnerEncode(codec, out)
    ELSE LET r == ValidatorEncodeAfter(n - 1, codec, validates, out, valOut) IN
         IF r.err # NilErr \/ ~validates THEN r
         ELSE [r EXCEPT !.err = valOut, !.events = r.events \o <<"Validate">>]

\* validatorEncoder.Encode, n wrappers deep: Validate first if the value
\* implements Validator, the inner encoder only if that passed.
RECURSIVE ValidatorEncode(_, _, _, _, _)
ValidatorEncode(n, codec, validates, out, valOut) ==
    IF n = 0 THEN InnerEncode(codec, out)
    ELSE IF validates /\ valOut # NilErr
         THEN [err |-> valOut, events |-> <<"Validate">>,
               ctype |-> FALSE, wrote |-> FALSE]
    ELSE LET r == ValidatorEncode(n - 1, codec, validates, out, valOut) IN
         IF validates THEN [r EXCEPT !.events = <<"Validate">> \o r.events] ELSE r

\* Opts.Encoder.Encode(w, resp).
EncoderEncode(codec, validates, out, valOut) ==
    ValidatorEncode(codec.encVal, codec, validates, out, valOut)

MethodKeys == {"GET", "*"}

LeafDecoders == {"url", "json"}

\* Every MethodDecoder over MethodKeys, the empty one included.
Regs == UNION {[S -> LeafDecoders] : S \in SUBSET MethodKeys}

NoReg == <<>>

DefaultEncoder ==
    [dec |-> "method", reg |-> [k \in MethodKeys |-> IF k = "GET" THEN "url" ELSE "json"],
     decVal |-> 1, enc |-> "json", encVal |-> 1]

\* A CombinedEncoder of DecoderWithValidator and EncoderWithValidator applied
\* n times in all to the two halves of DefaultEncoder.
Rewrapped(n) == [DefaultEncoder EXCEPT !.decVal = n, !.encVal = n]

\* The codecs of the model: every decoder and encoder, each bare or in one
\* validating wrapper, and DefaultEncoder in up to MaxVal wrappers.
Codecs ==
    {[dec |-> "method", reg |-> r, decVal |-> dv, enc |-> e, encVal |-> ev] :
        r \in Regs, dv \in {0, 1}, e \in {"json", "unencodable"}, ev \in {0, 1}}
    \cup
    {[dec |-> d, reg |-> NoReg, decVal |-> dv, enc |-> e, encVal |-> ev] :
        d \in LeafDecoders, dv \in {0, 1}, e \in {"json", "unencodable"},
        ev \in {0, 1}}
    \cup
    {Rewrapped(n) : n \in 1..MaxVal}

\* The request and response types of a handler: the None sentinel, a type
\* without a Validate method, a type with one.
Types == {"None", "Plain", "Validator"}

Methods == {"GET", "POST"}

ErrorWriters == {"json", "text"}

Cfgs ==
    [reqT : Types, respT : Types, method : Methods, codec : Codecs,
     ew : ErrorWriters]

(***************************************************************************)
(* Contexts: a context maps the package's two keys to the value stored     *)
(* under them, NoValue where nothing is stored.                            *)
(***************************************************************************)
NoValue == <<>>

NoCtx == <<>>

CtxKeys == {"requestCtxKey", "routerOptsCtxKey"}

\* context.Background().
Background == [k \in CtxKeys |-> NoValue]

\* context.WithValue(c, key, v).
WithValue(c, key, v) == [c EXCEPT ![key] = v]

Opts(encoder, errorWriter) == [Encoder |-> encoder, ErrorWriter |-> errorWriter]

DefaultOpts == Opts(DefaultEncoder, "json")

\* A lookup that ignores the context.
OptsAlwaysDefault(c) == DefaultOpts

\* OptsFromContext(ctx).
OptsFromContext(c) ==
    IF c["routerOptsCtxKey"] # NoValue THEN c["routerOptsCtxKey"] ELSE DefaultOpts

\* WithOpts(ctx, opts).
WithOpts(c, opts) == WithValue(c, "routerOptsCtxKey", opts)

\* The context of the request the middleware Use(opts) hands to next.
Use(opts, c) == WithOpts(c, opts)

\* An *http.Request: its method and its context.
Request(method, c) == [method |-> method, ctx |-> c]

\* RequestFromContext(ctx).
RequestFromContext(c) == c["requestCtxKey"]

\* The request of an enclosing handler.
OuterRequest == Request("GET", Background)

\* The contexts requests arrive with: without Opts, with Opts injected by
\* Use, each plain or already carrying the request of an enclosing handler.
Ctxs ==
    {Background, WithValue(Background, "requestCtxKey", OuterRequest)}
    \cup {Use(Opts(c, ew), Background) : c \in Codecs, ew \in ErrorWriters}
    \cup {Use(DefaultOpts, WithValue(Background, "requestCtxKey", OuterRequest))}

(***************************************************************************)
(* The http.ResponseWriter: the Content-Type header, the status line (0    *)
(* while no header was written) and the body, a list of what was written.  *)
(***************************************************************************)
NewWriter == [ctype |-> "", status |-> 0, body |-> <<>>]

\* w.Header().Set("Content-Type", t): no effect once the header is out.
SetContentType(rw, t) == IF rw.status = 0 THEN [rw EXCEPT !.ctype = t] ELSE rw

\* w.WriteHeader(code): the first call decides the status line.
WriteHeader(rw, code) == IF rw.status = 0 THEN [rw EXCEPT !.status = code] ELSE rw

\* w.Write(b): an implicit WriteHeader(200) first.
Write(rw, b) == [WriteHeader(rw, 200) EXCEPT !.body = Append(rw.body, b)]

\* What fmt.Fprintln(w, err) writes: the error's message and a newline.
TextBody(err) == <<"text", ErrorString(err), "\n">>

\* What json.NewEncoder(w).Encode(map[string]any{field: err.Error()}) writes.
JSONBody(field, err) == <<"json", [k \in {field} |-> ErrorString(err)]>>

\* The body a standard ErrorWriter writes; "json" is JSONErrorWriter("error").
ErrorBody(ew, err) == IF ew = "json" THEN JSONBody("error", err) ELSE TextBody(err)

\* An error writer that writes the status line before the content type.
WriteErrorStatusFirst(rw, ew, err) ==
    LET t == IF ew = "json" THEN "application/json" ELSE "text/plain"
        h == SetContentType(WriteHeader(rw, ErrorHTTPStatus(err, StatusInternalServerError)),
                            t)
    IN Write(h, ErrorBody(ew, err))

\* textErrorWriter.WriteError and the function JSONErrorWriter("error") returns.
WriteError(rw, ew, err) ==
    LET t == IF ew = "json" THEN "application/json" ELSE "text/plain"
        h == WriteHeader(SetContentType(rw, t),
                         ErrorHTTPStatus(err, StatusInternalServerError))
    IN Write(h, ErrorBody(ew, err))

\* What Encoder.Encode left on the writer.
Encoded(rw, r) ==
    LET h == IF r.ctype THEN SetContentType(rw, "application/json") ELSE rw
    IN IF r.wrote THEN Write(h, <<"resp">>) ELSE h

(***************************************************************************)
(* Spec: Handler.ServeHTTP.  One call is in flight; Serve starts the next. *)
(***************************************************************************)
Init ==
    /\ pc = "idle"
    /\ rctx \in Ctxs
    /\ \E reqT \in Types, respT \in Types, m \in Methods :
          cfg = [reqT |-> reqT, respT |-> respT, method |-> m,
                 codec |-> OptsFromContext(rctx).Encoder,
                 ew |-> OptsFromContext(rctx).ErrorWriter]
    /\ cfg \in Cfgs
    /\ ctx = NoCtx
    /\ hctx = NoCtx
    /\ log = <<>>
    /\ w = NewWriter
    /\ werr = <<>>
    /\ ret = <<>>
    /\ ErrIdle
    /\ URLIdle
    /\ ConcIdle

\* The router hands the next request to the handler: the handler's types
\* and the router's Opts are those of the registration, the method is the
\* request's.
Serve ==
    /\ pc \in {"idle", "done"}
    /\ pc' = "decode"
    /\ \E m \in Methods :
          /\ ctx' = WithValue(rctx, "requestCtxKey", Request(m, rctx))
          /\ cfg' = [cfg EXCEPT !.method = m,
                                !.codec = OptsFromContext(ctx').Encoder,
                                !.ew = OptsFromContext(ctx').ErrorWriter]
    /\ hctx' = NoCtx
    /\ log' = <<>>
    /\ w' = NewWriter
    /\ werr' = <<>>
    /\ ret' = <<>>
    /\ UNCHANGED <<rctx, errVars, urlVars, concVars>>

\* What a phase's collaborators returned: the leaf decoder, handler or inner
\* encoder (in), the Validate method (val), and the phase as a whole (err).
Phase(name, in, val, err) == [phase |-> name, in |-> in, val |-> val, err |-> err]

\* opts.ErrorWriter.WriteError(w, err); return.
Fail(events, rw, err) ==
    /\ log' = log \o events \o <<"WriteError">>
    /\ werr' = Append(werr, err)
    /\ w' = WriteError(rw, cfg.ew, err)
    /\ pc' = "done"

\* A decode step that does not look at the request type.
DecodeStepAlways(out, valOut) ==
    /\ pc = "decode"
    /\ LET r == EncoderDecode(cfg.codec, cfg.method, cfg.reqT = "Validator",
                              out, valOut)
           ev == <<"Decode">> \o r.events
       IN /\ ret' = Append(ret, Phase("decode", out, valOut, r.err))
          /\ IF r.err # NilErr
             THEN Fail(ev, w, WrapHTTPError(StatusBadRequest, r.err))
             ELSE /\ pc' = "invoke"
                  /\ log' = log \o ev
                  /\ UNCHANGED <<w, werr>>
    /\ UNCHANGED <<cfg, rctx, ctx, hctx, errVars, urlVars, concVars>>

\* A decode step that answers 400 whatever the error carries.
DecodeStepOverride(out, valOut) ==
    /\ pc = "decode"
    /\ IF cfg.reqT = "None"
       THEN /\ pc' = "invoke"
            /\ UNCHANGED <<log, w, werr, ret>>
       ELSE LET r == EncoderDecode(cfg.codec, cfg.method, cfg.reqT = "Validator",
                                   out, valOut)
                ev == <<"Decode">> \o r.events
            IN /\ ret' = Append(ret, Phase("decode", out, valOut, r.err))
               /\ IF r.err # NilErr
                  THEN Fail(ev, w, OverrideHTTPError(StatusBadRequest, r.err))
                  ELSE /\ pc' = "invoke"
                       /\ log' = log \o ev
                       /\ UNCHANGED <<w, werr>>
    /\ UNCHANGED <<cfg, rctx, ctx, hctx, errVars, urlVars, concVars>>

\* ServeHTTP up to the call of h: decode unless RequestT is None.
DecodeStep(out, valOut) ==
    /\ pc = "decode"
    /\ IF cfg.reqT = "None"
       THEN /\ pc' = "invoke"
            /\ UNCHANGED <<log, w, werr, ret>>
       ELSE LET r == EncoderDecode(cfg.codec, cfg.method, cfg.reqT = "Validator",
                                   out, valOut)
                ev == <<"Decode">> \o r.events
            IN /\ ret' = Append(ret, Phase("decode", out, valOut, r.err))
               /\ IF r.err # NilErr
                  THEN Fail(ev, w, WrapHTTPError(StatusBadRequest, r.err))
                  ELSE /\ pc' = "invoke"
                       /\ log' = log \o ev
                       /\ UNCHANGED <<w, werr>>
    /\ UNCHANGED <<cfg, rctx, ctx, hctx, errVars, urlVars, concVars>>

\* An invoke step whose error branch lacks the return.
InvokeStepNoReturn(herr) ==
    /\ pc = "invoke"
    /\ ret' = Append(ret, Phase("invoke", herr, NilErr, herr))
    /\ IF herr # NilErr
       THEN /\ log' = log \o <<"h", "WriteError">>
            /\ werr' = Append(werr, herr)
            /\ w' = WriteError(w, cfg.ew, herr)
            /\ pc' = "encode"
       ELSE /\ pc' = "encode"
            /\ log' = Append(log, "h")
            /\ UNCHANGED <<w, werr>>
    /\ hctx' = ctx
    /\ UNCHANGED <<cfg, rctx, ctx, errVars, urlVars, concVars>>

\* An invoke step that wraps the handler's error like the other two phases.
InvokeStepWrap(herr) ==
    /\ pc = "invoke"
    /\ ret' = Append(ret, Phase("invoke", herr, NilErr, herr))
    /\ IF herr # NilErr
       THEN Fail(<<"h">>, w, WrapHTTPError(StatusInternalServerError, herr))
       ELSE /\ pc' = "encode"
            /\ log' = Append(log, "h")
            /\ UNCHANGED <<w, werr>>
    /\ hctx' = ctx
    /\ UNCHANGED <<cfg, rctx, ctx, errVars, urlVars, concVars>>

\* An invoke step that hands the request's own context to the handler.
InvokeStepRequestContext(herr) ==
    /\ pc = "invoke"
    /\ ret' = Append(ret, Phase("invoke", herr, NilErr, herr))
    /\ IF herr # NilErr
       THEN Fail(<<"h">>, w, herr)
       ELSE /\ pc' = "encode"
            /\ log' = Append(log, "h")
            /\ UNCHANGED <<w, werr>>
    /\ hctx' = rctx
    /\ UNCHANGED <<cfg, rctx, ctx, errVars, urlVars, concVars>>

\* resp, err := h(ctx, req), and the error check after it.
InvokeStep(herr) ==
    /\ pc = "invoke"
    /\ ret' = Append(ret, Phase("invoke", herr, NilErr, herr))
    /\ IF herr # NilErr
       THEN Fail(<<"h">>, w, herr)
       ELSE /\ pc' = "encode"
            /\ log' = Append(log, "h")
            /\ UNCHANGED <<w, werr>>
    /\ hctx' = ctx
    /\ UNCHANGED <<cfg, rctx, ctx, errVars, urlVars, concVars>>

\* The rest of ServeHTTP: encode unless ResponseT is None.
EncodeStep(out, valOut) ==
    /\ pc = "encode"
    /\ IF cfg.respT = "None"
       THEN /\ pc' = "done"
            /\ UNCHANGED <<log, w, werr, ret>>
       ELSE LET r == EncoderEncode(cfg.codec, cfg.respT = "Validator", out, valOut)
                ev == <<"Encode">> \o r.events
            IN /\ ret' = Append(ret, Phase("encode", out, valOut, r.err))
               /\ IF r.err # NilErr
                  THEN Fail(ev, Encoded(w, r),
                            WrapHTTPError(StatusInternalServerError, r.err))
                  ELSE /\ pc' = "done"
                       /\ log' = log \o ev
                       /\ w' = Encoded(w, r)
                       /\ UNCHANGED werr
    /\ UNCHANGED <<cfg, rctx, ctx, hctx, errVars, urlVars, concVars>>

\* What Validate can return for a value of type t: a type without the
\* method returns nothing.
ValOutsOf(t) == IF t = "Validator" THEN ValOuts ELSE {NilErr}

Decode == \E out \in Outs, valOut \in ValOutsOf(cfg.reqT) : DecodeStep(out, valOut)

Invoke == \E herr \in Outs : InvokeStep(herr)

Encode == \E out \in Outs, valOut \in ValOutsOf(cfg.respT) : EncodeStep(out, valOut)

Next ==
    \/ Serve
    \/ Decode
    \/ Invoke
    \/ Encode

Spec == Init /\ [][Next]_vars

(***************************************************************************)
(* SpecConc: MaxCalls calls of ServeHTTP run at once, their steps          *)
(* interleaved.  A call is its request (method, context), the types of its *)
(* handler, what its collaborators are going to return (in), and its       *)
(* locals: where it stands, the Opts it looked up, its ResponseWriter.     *)
(* The package variable DefaultOpts is the one thing the calls share.      *)
(***************************************************************************)
\* ServeHTTP up to the lookup of opts; d is the value of DefaultOpts read.
LookupF(c, d) ==
    IF c.pc # "start" THEN c
    ELSE LET cx == WithValue(c.rctx, "requestCtxKey", Request(c.method, c.rctx))
         IN [c EXCEPT !.pc = "decode",
                      !.opts = IF cx["routerOptsCtxKey"] # NoValue
                               THEN cx["routerOptsCtxKey"] ELSE d]

\* The decode phase of the call.
DecodeF(c) ==
    IF c.pc # "decode" THEN c
    ELSE IF c.reqT = "None" THEN [c EXCEPT !.pc = "invoke"]
    ELSE LET r == EncoderDecode(c.opts.Encoder, c.method, c.reqT = "Validator",
                                c.in.dOut, c.in.dVal)
         IN IF r.err # NilErr
            THEN [c EXCEPT !.pc = "done",
                           !.w = WriteError(c.w, c.opts.ErrorWriter,
                                            WrapHTTPError(StatusBadRequest, r.err))]
            ELSE [c EXCEPT !.pc = "invoke"]

\* The call of h and the error check after it.
InvokeF(c) ==
    IF c.pc # "invoke" THEN c
    ELSE IF c.in.hErr # NilErr
    THEN [c EXCEPT !.pc = "done",
                   !.w = WriteError(c.w, c.opts.ErrorWriter, c.in.hErr)]
    ELSE [c EXCEPT !.pc = "encode"]

\* The encode phase of the call.
EncodeF(c) ==
    IF c.pc # "encode" THEN c
    ELSE IF c.respT = "None" THEN [c EXCEPT !.pc = "done"]
    ELSE LET r == EncoderEncode(c.opts.Encoder, c.respT = "Validator",
                                c.in.eOut, c.in.eVal)
         IN IF r.err # NilErr
            THEN [c EXCEPT !.pc = "done",
                           !.w = WriteError(Encoded(c.w, r), c.opts.ErrorWriter,
                                            WrapHTTPError(StatusInternalServerError, r.err))]
            ELSE [c EXCEPT !.pc = "done", !.w = Encoded(c.w, r)]

\* Opts other than the default: a JSON decoder, no encoder, text errors.
TextOpts ==
    Opts([dec |-> "json", reg |-> NoReg, decVal |-> 0, enc |-> "unencodable",
          encVal |-> 0], "text")

\* What the collaborators of a call return: all succeed, or one of them fails.
CallIns ==
    {[dOut |-> d, dVal |-> NilErr, hErr |-> h, eOut |-> x, eVal |-> NilErr] :
        d \in {NilErr, ErrorsNew("boom")},
        h \in {NilErr, NewHTTPError(StatusNotFound, "boom")},
        x \in {NilErr, ErrorsNew("boom")}}

NewCalls ==
    [pc : {"start"}, opts : {NoValue}, w : {NewWriter},
     reqT : {"Validator"}, respT : {"Plain"}, method : {"GET"},
     rctx : {Background, Use(TextOpts, Background)},
     in : {i \in CallIns :
             Cardinality({k \in DOMAIN i : i[k] # NilErr}) <= 1}]

ConcInit ==
    /\ calls \in [1..MaxCalls -> NewCalls]
    /\ defaultOpts = DefaultOpts
    /\ ServeIdle
    /\ ErrIdle
    /\ URLIdle

\* A lookup that remembers the Opts it found as the new default.
CLookupCaching(i) ==
    /\ calls[i].pc = "start"
    /\ calls' = [calls EXCEPT ![i] = LookupF(calls[i], defaultOpts)]
    /\ defaultOpts' = calls'[i].opts
    /\ UNCHANGED <<serveVars, errVars, urlVars>>

\* Call i reads its Opts.
CLookup(i) ==
    /\ calls[i].pc = "start"
    /\ calls' = [calls EXCEPT ![i] = LookupF(calls[i], defaultOpts)]
    /\ UNCHANGED <<defaultOpts, serveVars, errVars, urlVars>>

CDecode(i) ==
    /\ calls[i].pc = "decode"
    /\ calls' = [calls EXCEPT ![i] = DecodeF(calls[i])]
    /\ UNCHANGED <<defaultOpts, serveVars, errVars, urlVars>>

CInvoke(i) ==
    /\ calls[i].pc = "invoke"
    /\ calls' = [calls EXCEPT ![i] = InvokeF(calls[i])]
    /\ UNCHANGED <<defaultOpts, serveVars, errVars, urlVars>>

CEncode(i) ==
    /\ calls[i].pc = "encode"
    /\ calls' = [calls EXCEPT ![i] = EncodeF(calls[i])]
    /\ UNCHANGED <<defaultOpts, serveVars, errVars, urlVars>>

ConcLookup == \E i \in DOMAIN calls : CLookup(i)

ConcDecode == \E i \in DOMAIN calls : CDecode(i)

ConcInvoke == \E i \in DOMAIN calls : CInvoke(i)

ConcEncode == \E i \in DOMAIN calls : CEncode(i)

ConcNext ==
    \/ ConcLookup
    \/ ConcDecode
    \/ ConcInvoke
    \/ ConcEncode

SpecConc == ConcInit /\ [][ConcNext]_vars

(***************************************************************************)
(* URLDecoder.  Strings taken from the request are sequences of            *)
(* characters, so that conversions read them character by character.       *)
(*                                                                         *)
(* A struct field is its name, whether it is exported, its tags ("" for a  *)
(* tag that is absent or empty: Tag.Get returns "" for both), its kind     *)
(* with the bit size of a number, whether it is a pointer to that kind,    *)
(* and whether a pointer to its type implements encoding.TextUnmarshaler.  *)
(* A field's value holds one slot per kind (s string, n integer, x float   *)
(* as a decimal mantissa and exponent, b bool, t what UnmarshalText        *)
(* stored); isnil is TRUE for a nil pointer.                               *)
(***************************************************************************)
TagNames == {"form", "query", "schema", "url", "json"}

NoTags == [t \in TagNames |-> ""]

Field(name, exported, tags, kind, bits, ptr) ==
    [name |-> name, exported |-> exported, tags |-> tags, kind |-> kind,
     bits |-> bits, ptr |-> ptr, hook |-> FALSE]

\* The same field with a type that implements encoding.TextUnmarshaler.
WithHook(f) == [f EXCEPT !.hook = TRUE]

ZeroFloat == [m |-> 0, e |-> 0]

Zero(f) ==
    [isnil |-> f.ptr, s |-> <<>>, n |-> 0, x |-> ZeroFloat, b |-> FALSE, t |-> <<>>]

\* A pointer field that is never allocated.
NoPointee ==
    [isnil |-> TRUE, s |-> <<>>, n |-> 0, x |-> ZeroFloat, b |-> FALSE, t |-> <<>>]

\* reflect.New(rf): a pointer to a zero value.
NewPointee ==
    [isnil |-> FALSE, s |-> <<>>, n |-> 0, x |-> ZeroFloat, b |-> FALSE, t |-> <<>>]

DigitChars == <<"0", "1", "2", "3", "4", "5", "6", "7", "8", "9">>

IsDigit(ch) == \E d \in 1..10 : DigitChars[d] = ch

DigitVal(ch) == (CHOOSE d \in 1..10 : DigitChars[d] = ch) - 1

RECURSIVE DigitsValue(_)
DigitsValue(ds) ==
    IF ds = <<>> THEN 0
    ELSE 10 * DigitsValue(SubSeq(ds, 1, Len(ds) - 1)) + DigitVal(ds[Len(ds)])

AllDigits(ds) == \A i \in DOMAIN ds : IsDigit(ds[i])

\* An integer parser that wraps the value around the bit size instead of
\* failing.
ParseIntWrapping(s, bitSize) ==
    LET signed == s # <<>> /\ s[1] \in {"+", "-"}
        body == IF signed THEN Tail(s) ELSE s
    IN IF body = <<>> \/ ~AllDigits(body)
       THEN [ok |-> FALSE, n |-> 0, err |-> ErrorsNew("strconv.ParseInt: invalid syntax")]
       ELSE LET v == DigitsValue(body)
                n == IF signed /\ s[1] = "-" THEN 0 - v ELSE v
            IN [ok |-> TRUE,
                n |-> ((n + 2 ^ (bitSize - 1)) % (2 ^ bitSize)) - 2 ^ (bitSize - 1),
                err |-> NilErr]

\* strconv.ParseInt(s, 10, bitSize): an optional sign, then digits only; the
\* value must fit bitSize bits.
ParseInt(s, bitSize) ==
    LET signed == s # <<>> /\ s[1] \in {"+", "-"}
        body == IF signed THEN Tail(s) ELSE s
    IN IF body = <<>> \/ \E i \in DOMAIN body : ~IsDigit(body[i])
       THEN [ok |-> FALSE, n |-> 0, err |-> ErrorsNew("strconv.ParseInt: invalid syntax")]
       ELSE LET v == DigitsValue(body)
                n == IF signed /\ s[1] = "-" THEN 0 - v ELSE v
            IN IF n < 0 - 2 ^ (bitSize - 1) \/ n > 2 ^ (bitSize - 1) - 1
               THEN [ok |-> FALSE, n |-> 0,
                     err |-> ErrorsNew("strconv.ParseInt: value out of range")]
               ELSE [ok |-> TRUE, n |-> n, err |-> NilErr]

\* strconv.ParseUint(s, 10, bitSize): digits only, no sign; the value must
\* fit bitSize bits.
ParseUint(s, bitSize) ==
    IF s = <<>> \/ ~AllDigits(s)
    THEN [ok |-> FALSE, n |-> 0, err |-> ErrorsNew("strconv.ParseUint: invalid syntax")]
    ELSE LET v == DigitsValue(s)
         IN IF v > 2 ^ bitSize - 1
            THEN [ok |-> FALSE, n |-> 0,
                  err |-> ErrorsNew("strconv.ParseUint: value out of range")]
            ELSE [ok |-> TRUE, n |-> v, err |-> NilErr]

\* The first position of ch in s, 0 when it does not occur.
IndexOf(s, ch) ==
    IF \E i \in DOMAIN s : s[i] = ch
    THEN CHOOSE i \in DOMAIN s : s[i] = ch /\ \A j \in 1..(i - 1) : s[j] # ch
    ELSE 0

RECURSIVE NumDigits(_)
NumDigits(n) == IF n < 10 THEN 1 ELSE 1 + NumDigits(n \div 10)

RECURSIVE LeadDigit(_)
LeadDigit(n) == IF n < 10 THEN n ELSE LeadDigit(n \div 10)

\* m * 10^e without trailing zeros in m.
RECURSIVE Normal(_, _)
Normal(m, e) ==
    IF m = 0 THEN ZeroFloat
    ELSE IF m % 10 = 0 THEN Normal(m \div 10, e + 1)
    ELSE [m |-> m, e |-> e]

\* The largest decimal exponent of a finite float of the bit size, the
\* largest float32 being about 3.4e38 and the largest float64 1.8e308.
MaxExp10(bitSize) == IF bitSize = 32 THEN 38 ELSE 308

MaxLead(bitSize) == IF bitSize = 32 THEN 3 ELSE 1

\* strconv.ParseFloat(s, bitSize) on decimal literals: an optional sign,
\* digits with an optional point, an optional exponent.  The magnitude is
\* compared with the largest finite float by its decimal exponent and its
\* leading digit.
ParseFloat(s, bitSize) ==
    LET signed == s # <<>> /\ s[1] \in {"+", "-"}
        body == IF signed THEN Tail(s) ELSE s
        ePos == IndexOf(body, "e")
        mant == IF ePos = 0 THEN body ELSE SubSeq(body, 1, ePos - 1)
        expS == IF ePos = 0 THEN <<"0">> ELSE SubSeq(body, ePos + 1, Len(body))
        dot == IndexOf(mant, ".")
        ip == IF dot = 0 THEN mant ELSE SubSeq(mant, 1, dot - 1)
        fp == IF dot = 0 THEN <<>> ELSE SubSeq(mant, dot + 1, Len(mant))
        ex == ParseInt(expS, 16)
        bad == [ok |-> FALSE, x |-> ZeroFloat,
                err |-> ErrorsNew("strconv.ParseFloat: invalid syntax")]
    IN IF ip \o fp = <<>> \/ ~AllDigits(ip \o fp) \/ ~ex.ok
       THEN bad
       ELSE LET m == DigitsValue(ip \o fp)
                v == Normal(m, ex.n - Len(fp))
                d == NumDigits(v.m) + v.e - 1
                x == IF signed /\ s[1] = "-" THEN [v EXCEPT !.m = 0 - v.m] ELSE v
            IN IF /\ m # 0
                  /\ \/ d > MaxExp10(bitSize)
                     \/ d = MaxExp10(bitSize) /\ LeadDigit(v.m) > MaxLead(bitSize)
               THEN [ok |-> FALSE, x |-> ZeroFloat,
                     err |-> ErrorsNew("strconv.ParseFloat: value out of range")]
               ELSE [ok |-> TRUE, x |-> x, err |-> NilErr]

\* The UnmarshalText of the field's type, here of a type whose text form is a
\* decimal number.
UnmarshalText(s) ==
    IF AllDigits(s) THEN [ok |-> TRUE, t |-> <<DigitsValue(s)>>, err |-> NilErr]
    ELSE [ok |-> FALSE, t |-> <<>>, err |-> ErrorsNew("cannot unmarshal text")]

\* A bool conversion that parses the word instead of testing for emptiness.
SetPrimitiveStrictBool(f, cur, s) ==
    IF s = <<>> THEN [val |-> cur, err |-> NilErr]
    ELSE LET rv == IF f.ptr THEN NewPointee ELSE cur IN
         [val |-> [rv EXCEPT !.s = IF f.kind = "string" THEN s ELSE <<>>,
                             !.b = (s \notin {<<"0">>, <<"f", "a", "l", "s", "e">>})],
          err |-> NilErr]

\* rfutil.SetPrimitiveFromString: the new value of the field and the error.
SetPrimitiveFromString(f, cur, s) ==
    IF s = <<>> THEN [val |-> cur, err |-> NilErr]
    ELSE LET rv == IF f.ptr THEN NewPointee ELSE cur IN
         CASE f.kind = "string" ->
                [val |-> [rv EXCEPT !.s = s], err |-> NilErr]
           [] f.kind = "int" ->
                LET r == ParseInt(s, f.bits) IN
                IF r.ok THEN [val |-> [rv EXCEPT !.n = r.n], err |-> NilErr]
                ELSE [val |-> rv, err |-> ErrorsWrap(r.err, "invalid int")]
           [] f.kind = "uint" ->
                LET r == ParseUint(s, f.bits) IN
                IF r.ok THEN [val |-> [rv EXCEPT !.n = r.n], err |-> NilErr]
                ELSE [val |-> rv, err |-> ErrorsWrap(r.err, "invalid uint")]
           [] f.kind = "float" ->
                LET r == ParseFloat(s, f.bits) IN
                IF r.ok THEN [val |-> [rv EXCEPT !.x = r.x], err |-> NilErr]
                ELSE [val |-> rv, err |-> ErrorsWrap(r.err, "invalid float")]
           [] f.kind = "bool" ->
                [val |-> [rv EXCEPT !.b = (s # <<>>)], err |-> NilErr]
           [] OTHER ->
                IF f.hook
                THEN LET r == UnmarshalText(s) IN
                     IF r.ok THEN [val |-> [rv EXCEPT !.t = r.t], err |-> NilErr]
                     ELSE [val |-> rv, err |-> ErrorsWrap(r.err, "text unmarshaling")]
                ELSE [val |-> rv, err |-> NilErr]

\* r.FormValue(key): the first value of the key in the parsed form, "" when
\* the key is absent.
FormValue(req, key) ==
    IF key \in DOMAIN req.form THEN req.form[key] ELSE <<>>

\* chi.URLParam(r, key): the value of the last path parameter named key, ""
\* when there is none.
URLParam(req, key) ==
    LET hits == {i \in DOMAIN req.params : req.params[i].k = key}
    IN IF hits = {} THEN <<>>
       ELSE req.params[CHOOSE i \in hits : \A j \in hits : j <= i].v

\* strings.EqualFold on the names of the model.
Lower(k) == CASE k = "A" -> "a" [] k = "B" -> "b" [] OTHER -> k

EqualFold(a, b) == Lower(a) = Lower(b)

Read(src, key) == [src |-> src, key |-> key]

Got(f, cur, s, reads) ==
    LET r == SetPrimitiveFromString(f, cur, s)
    IN [val |-> r.val, err |-> r.err, reads |-> reads]

\* The first of the tags form, query, schema the field has, "" if none.
FormTag(f) ==
    IF f.tags["form"] # "" THEN f.tags["form"]
    ELSE IF f.tags["query"] # "" THEN f.tags["query"]
    ELSE f.tags["schema"]

\* A search by field name that looks at the form before the path parameters.
UntaggedFormFirst(f, cur, req) ==
    LET ph == {i \in DOMAIN req.params : EqualFold(req.params[i].k, f.name)}
        fk == {k \in DOMAIN req.form : EqualFold(k, f.name)}
    IN IF fk # {}
       THEN {Got(f, cur, req.form[k], <<Read("formkeys", k)>>) : k \in fk}
       ELSE IF ph # {}
       THEN {Got(f, cur, req.params[CHOOSE i \in ph : \A j \in ph : i <= j].v,
                 <<Read("formkeys", ""), Read("params", f.name)>>)}
       ELSE {[val |-> cur, err |-> NilErr,
              reads |-> <<Read("formkeys", ""), Read("params", f.name)>>]}

\* The search by field name of an untagged field: the first path parameter
\* whose key equals the name ignoring case, else a form key that does (the
\* form is a map: any of the matching keys may come first).
UntaggedDecode(f, cur, req) ==
    LET ph == {i \in DOMAIN req.params : EqualFold(req.params[i].k, f.name)}
        fk == {k \in DOMAIN req.form : EqualFold(k, f.name)}
    IN IF ph # {}
       THEN {Got(f, cur, req.params[CHOOSE i \in ph : \A j \in ph : i <= j].v,
                 <<Read("params", f.name)>>)}
       ELSE IF fk # {}
       THEN {Got(f, cur, req.form[k], <<Read("params", f.name), Read("formkeys", k)>>) :
                k \in fk}
       ELSE {[val |-> cur, err |-> NilErr,
              reads |-> <<Read("params", f.name), Read("formkeys", "")>>]}

\* The decoder before tags had a fixed source: the json tag first, then the
\* url tag, the path parameter first and the form value if that is empty.
FieldDecodeOld(f, cur, req) ==
    LET name == IF f.tags["json"] # "" THEN f.tags["json"]
                ELSE IF f.tags["url"] # "" THEN f.tags["url"]
                ELSE f.name
    IN IF URLParam(req, name) # <<>>
       THEN {Got(f, cur, URLParam(req, name), <<Read("url", name)>>)}
       ELSE {Got(f, cur, FormValue(req, name),
                 <<Read("url", name), Read("form", name)>>)}

\* The function urlDecoder.Decode hands to EachStructField: the outcomes it
\* can have for field f, each the field's new value, the error and the
\* request sources read.
FieldDecode(f, cur, req) ==
    IF FormTag(f) # ""
    THEN {Got(f, cur, FormValue(req, FormTag(f)), <<Read("form", FormTag(f))>>)}
    ELSE IF f.tags["url"] # ""
    THEN {Got(f, cur, URLParam(req, f.tags["url"]), <<Read("url", f.tags["url"])>>)}
    ELSE IF f.tags["json"] # ""
    THEN LET tagValue == f.tags["json"] IN
         IF URLParam(req, tagValue) # <<>>
         THEN {Got(f, cur, URLParam(req, tagValue), <<Read("url", tagValue)>>)}
         ELSE {Got(f, cur, FormValue(req, tagValue),
                   <<Read("url", tagValue), Read("form", tagValue)>>)}
    ELSE UntaggedDecode(f, cur, req)

(***************************************************************************)
(* The bounded structs and requests of SpecURL.                            *)
(***************************************************************************)
Keys == {"a", "b"}

PathVals == {<<"1">>}

FormVals == {<<>>, <<"x">>}

\* Every tagging of a string field named A over the keys.
TagFields ==
    {Field("A", TRUE, tags, "string", 0, FALSE) : tags \in [TagNames -> Keys \cup {""}]}

\* Fields of the other kinds, for structs of several fields.
SampleFields ==
    {Field("A", TRUE, [NoTags EXCEPT !["form"] = "a"], "int", 8, FALSE),
     Field("B", TRUE, [NoTags EXCEPT !["url"] = "a"], "int", 8, TRUE),
     Field("B", TRUE, [NoTags EXCEPT !["json"] = "b"], "bool", 0, FALSE),
     Field("A", TRUE, NoTags, "string", 0, TRUE),
     Field("b", FALSE, [NoTags EXCEPT !["query"] = "b"], "string", 0, FALSE)}

Structs ==
    {<<f>> : f \in TagFields}
    \cup UNION {[1..n -> SampleFields] : n \in 2..MaxFields}

\* Fields of every kind behind the form key a: plain and pointer, with and
\* without a text-unmarshaling hook.
FormA == [NoTags EXCEPT !["form"] = "a"]

KindFields ==
    {Field("A", TRUE, FormA, k, 0, p) : k \in {"string", "bool", "struct"}, p \in BOOLEAN}
    \cup {Field("A", TRUE, FormA, k, 8, p) : k \in {"int", "uint"}, p \in BOOLEAN}
    \cup {Field("A", TRUE, FormA, "float", 32, p) : p \in BOOLEAN}
    \cup {WithHook(Field("A", TRUE, FormA, "struct", 0, p)) : p \in BOOLEAN}
    \cup {WithHook(Field("A", TRUE, FormA, "string", 0, FALSE))}

KindStructs == UNION {[1..n -> KindFields] : n \in 1..MaxFields}

\* The strings x, 1, 0, 200, 300, -1, 1.5, 1e39 and false.
Texts ==
    {<<"x">>, <<"1">>, <<"0">>, <<"2", "0", "0">>, <<"3", "0", "0">>, <<"-", "1">>,
     <<"1", ".", "5">>, <<"1", "e", "3", "9">>, <<"f", "a", "l", "s", "e">>}

\* Requests without path parameters whose form has at most the key a.
TextRequests ==
    {[params |-> <<>>, form |-> fm] :
        fm \in {<<>>} \cup {[k \in {"a"} |-> v] : v \in Texts \cup {<<>>}}}

Params == [k : Keys, v : PathVals]

ParamLists == UNION {[1..n -> Params] : n \in 0..MaxParams}

Forms == UNION {[S -> FormVals] : S \in SUBSET Keys}

Requests == [params : ParamLists, form : Forms]

Running == [done |-> FALSE, err |-> NilErr]

\* What a Decode left behind: the struct and the error returned.
NoOutcome == <<>>

Outcome(val, err) == [val |-> val, err |-> err]

Returned(err) == [done |-> TRUE, err |-> err]

(***************************************************************************)
(* SpecURL: urlDecoder.Decode(r, &v) on a fresh struct, one field of       *)
(* EachStructField's loop per step.                                        *)
(***************************************************************************)
URLInit ==
    /\ \/ ustruct \in Structs /\ ureq \in Requests
       \/ ustruct \in KindStructs /\ ureq \in TextRequests
    /\ uval = [i \in DOMAIN ustruct |-> Zero(ustruct[i])]
    /\ upos = 1
    /\ ureads = [i \in DOMAIN ustruct |-> <<>>]
    /\ uerr = Running
    /\ ufirst = NoOutcome
    /\ ServeIdle
    /\ ErrIdle
    /\ ConcIdle

\* One iteration of the loop of EachStructField.
VisitField ==
    /\ ~uerr.done
    /\ upos <= Len(ustruct)
    /\ LET f == ustruct[upos] IN
       IF ~f.exported
       THEN /\ upos' = upos + 1
            /\ UNCHANGED <<uval, ureads, uerr>>
       ELSE \E r \in FieldDecode(f, uval[upos], ureq) :
               /\ uval' = [uval EXCEPT ![upos] = r.val]
               /\ ureads' = [ureads EXCEPT ![upos] = r.reads]
               /\ IF r.err # NilErr
                  THEN uerr' = Returned(r.err) /\ upos' = upos
                  ELSE uerr' = uerr /\ upos' = upos + 1
    /\ UNCHANGED <<ustruct, ureq, ufirst, serveVars, errVars, concVars>>

\* The loop is over: EachStructField returns nil.
ReturnNil ==
    /\ ~uerr.done
    /\ upos > Len(ustruct)
    /\ uerr' = Returned(NilErr)
    /\ UNCHANGED <<ustruct, ureq, uval, upos, ureads, ufirst, serveVars, errVars, concVars>>

URLNext == VisitField \/ ReturnNil

SpecURL == URLInit /\ [][URLNext]_vars

(***************************************************************************)
(* SpecTwice: the same request is decoded twice, each time into a fresh    *)
(* struct of the same type; the form may hold keys that differ in letter   *)
(* case only.                                                              *)
(***************************************************************************)
\* Forms over the keys a and A, which are equal under EqualFold.
CaseForms == UNION {[S -> {<<"x">>, <<"1">>}] : S \in SUBSET {"a", "A"}}

CaseRequests ==
    [params : {<<>>, <<[k |-> "a", v |-> <<"1">>]>>}, form : CaseForms]

TwiceInit ==
    /\ ustruct \in Structs
    /\ ureq \in CaseRequests
    /\ uval = [i \in DOMAIN ustruct |-> Zero(ustruct[i])]
    /\ upos = 1
    /\ ureads = [i \in DOMAIN ustruct |-> <<>>]
    /\ uerr = Running
    /\ ufirst = NoOutcome
    /\ ServeIdle
    /\ ErrIdle
    /\ ConcIdle

\* The first Decode has returned: Decode is called again with the same
\* request and a fresh struct.
DecodeAgain ==
    /\ uerr.done
    /\ ufirst = NoOutcome
    /\ ufirst' = Outcome(uval, uerr.err)
    /\ uval' = [i \in DOMAIN ustruct |-> Zero(ustruct[i])]
    /\ upos' = 1
    /\ ureads' = [i \in DOMAIN ustruct |-> <<>>]
    /\ uerr' = Running
    /\ UNCHANGED <<ustruct, ureq, serveVars, errVars, concVars>>

TwiceNext == VisitField \/ ReturnNil \/ DecodeAgain

SpecTwice == TwiceInit /\ [][TwiceNext]_vars

(***************************************************************************)
(* Claims about the error model, checked under SpecErr.                    *)
(***************************************************************************)
OnlyWraps == \A i \in 1..Len(ops) : ops[i].op = "wrap"

\* C6: wrapping is idempotent and the first code wins: for the current error e
\* and all codes c, d, ErrorHTTPStatus(WrapHTTPError(c, e), d) equals
\* ErrorHTTPStatus(e, c); wrapping an uncoded error with 500 and then with 400
\* carries 500; and after any sequence of WrapHTTPError calls the carried
\* status is that of the start error, or the first call's code if it had none.
C6_FirstCodeWins ==
    /\ \A c \in Codes, d \in Codes :
          ErrorHTTPStatus(WrapHTTPError(c, ecur), d) = ErrorHTTPStatus(ecur, c)
    /\ ~Carries(ecur) =>
          \A d \in Codes :
             ErrorHTTPStatus(
                 WrapHTTPError(StatusBadRequest,
                     WrapHTTPError(StatusInternalServerError, ecur)), d)
             = StatusInternalServerError
    /\ (ops # <<>> /\ OnlyWraps) =>
          \A d \in Codes :
             ErrorHTTPStatus(ecur, d) = ErrorHTTPStatus(e0, ops[1].code)

\* C6 witness: an uncoded error was wrapped with 500 and then with 400, and
\* carries 500.
C6_Witness ==
    /\ ~Carries(e0) /\ e0 # NilErr
    /\ Len(ops) = 2 /\ OnlyWraps
    /\ ops[1].code = StatusInternalServerError
    /\ ops[2].code = StatusBadRequest
    /\ ErrorHTTPStatus(ecur, StatusNotFound) = StatusInternalServerError

\* C7 as claimed: WrapHTTPError(code, err) of an error that already carries a
\* status code, itself an HTTPError or wrapping one deeper in its chain,
\* returns err itself: same message, same cause chain.
C7_WrapReturnsErrItself ==
    [][\A c \in Codes :
          (ErrWrap(c) /\ Carries(ecur)) =>
             /\ ecur' = ecur
             /\ ErrorString(ecur') = ErrorString(ecur)]_vars

\* C8 as claimed: OverrideHTTPError(c, err) carries c; for an err that carries
\* a code it wraps the cause of that coded error directly, the cause non-nil
\* and the old code gone; for an err without a code it wraps err itself.
C8_OverrideKeepsCause ==
    [][\A c \in Codes :
          ErrOverride(c) =>
             /\ \A d \in Codes : ErrorHTTPStatus(ecur', d) = c
             /\ Carries(ecur) =>
                   LET cause == Unwrap(HTTPErrOf(ecur)) IN
                   /\ cause # NilErr
                   /\ ecur' = wrappedHTTPError(c, cause)
                   /\ ~Carries(Unwrap(ecur'))
             /\ ~Carries(ecur) => ecur' = wrappedHTTPError(c, ecur)]_vars


(***************************************************************************)
(* Claims about Handler.ServeHTTP, checked under Spec.                      *)
(***************************************************************************)
Count(ev) == Cardinality({i \in DOMAIN log : log[i] = ev})

Ran(ph) == \E i \in DOMAIN ret : ret[i].phase = ph

RetOf(ph) == ret[CHOOSE i \in DOMAIN ret : ret[i].phase = ph]

Failed(ph) == Ran(ph) /\ RetOf(ph).err # NilErr

DecodeEvents == {"Decode", "urlDecoder.Decode", "jsonEncoder.Decode"}

LeafDecodeEvents == {"urlDecoder.Decode", "jsonEncoder.Decode"}

EncodeEvents == {"Encode", "jsonEncoder.Encode", "UnencodableEncoder.Encode"}

InnerEncodeEvents == {"jsonEncoder.Encode", "UnencodableEncoder.Encode"}

CountIn(S) == Cardinality({i \in DOMAIN log : log[i] \in S})

\* C1: in a call the phases run in the order Decode, Invoke, Encode, each at
\* most once; nothing runs after a failed phase (a failed Decode means no
\* handler and no Encode, a failed handler no Encode); WriteError is invoked
\* at most once, is the call's last act, and is invoked exactly when a phase
\* failed.
C1_PhaseOrder ==
    /\ \A i, j \in DOMAIN log :
          /\ (log[i] \in DecodeEvents /\ log[j] \in {"h"} \cup EncodeEvents) => i < j
          /\ (log[i] = "h" /\ log[j] \in EncodeEvents) => i < j
          /\ (log[i] = "WriteError") => (j <= i)
    /\ Count("Decode") <= 1 /\ Count("h") <= 1 /\ Count("Encode") <= 1
    /\ Count("WriteError") <= 1
    /\ Len(werr) = Count("WriteError")
    /\ Ran("decode") <=> Count("Decode") = 1
    /\ Ran("invoke") <=> Count("h") = 1
    /\ Ran("encode") <=> Count("Encode") = 1
    /\ Failed("decode") => (Count("h") = 0 /\ CountIn(EncodeEvents) = 0)
    /\ Failed("invoke") => CountIn(EncodeEvents) = 0
    /\ Count("WriteError") = 1 <=>
          (Failed("decode") \/ Failed("invoke") \/ Failed("encode"))
    /\ Count("WriteError") = 1 => pc = "done"

\* C1 witness: a call went through all three phases and Encode failed.
C1_Witness ==
    /\ pc = "done"
    /\ Ran("decode") /\ Ran("invoke") /\ Failed("encode")
    /\ log[Len(log)] = "WriteError"

\* C2: when Opts.Encoder.Decode fails (a failing Validate included), the error
\* handed to the ErrorWriter, and the response, have the decode error's own
\* status code if it carries one and 400 otherwise; a method-dispatch failure
\* stays 405; the handler is not invoked.
C2_DecodeError ==
    Failed("decode") =>
       LET e == RetOf("decode").err IN
       /\ Len(werr) = 1
       /\ \A d \in Codes :
             ErrorHTTPStatus(werr[1], d) =
                IF Carries(e) THEN HTTPStatus(HTTPErrOf(e)) ELSE StatusBadRequest
       /\ w.status = ErrorHTTPStatus(werr[1], StatusInternalServerError)
       /\ (CountIn(LeafDecodeEvents) = 0) => w.status = StatusMethodNotAllowed
       /\ Count("h") = 0

\* C2 witness: the URL decoder succeeded, Validate returned an uncoded error,
\* and the response is a 400.
C2_Witness ==
    /\ log = <<"Decode", "urlDecoder.Decode", "Validate", "WriteError">>
    /\ ~Carries(RetOf("decode").err)
    /\ w.status = StatusBadRequest

\* C3: when the handler returns an error, the ErrorWriter is handed that very
\* error, so the response status is the error's carried code, or 500 if it
\* carries none, and nothing is encoded.
C3_HandlerError ==
    Failed("invoke") =>
       LET e == RetOf("invoke").err IN
       /\ werr = <<e>>
       /\ w.status = (IF Carries(e) THEN HTTPStatus(HTTPErrOf(e))
                      ELSE StatusInternalServerError)
       /\ CountIn(EncodeEvents) = 0
       /\ \A i \in DOMAIN w.body : w.body[i] # <<"resp">>

\* C3 witness: the handler returned an uncoded error and the response is a 500
\* whose body is that error's message.
C3_Witness ==
    /\ Failed("invoke")
    /\ ~Carries(RetOf("invoke").err)
    /\ w.status = StatusInternalServerError
    /\ w.body = <<ErrorBody(cfg.ew, RetOf("invoke").err)>>

\* C4: when Opts.Encoder.Encode fails, the error handed to the ErrorWriter
\* has the encode error's own status code if it carries one and 500 otherwise;
\* when the response value's Validate fails in a validating encoder, the inner
\* encoder is not invoked and nothing of the response value is written.
C4_EncodeError ==
    /\ Failed("encode") =>
          LET e == RetOf("encode").err IN
          /\ Len(werr) = 1
          /\ \A d \in Codes :
                ErrorHTTPStatus(werr[1], d) =
                   IF Carries(e) THEN HTTPStatus(HTTPErrOf(e))
                   ELSE StatusInternalServerError
    /\ (/\ Ran("encode")
        /\ cfg.respT = "Validator"
        /\ cfg.codec.encVal >= 1
        /\ RetOf("encode").val # NilErr) =>
          /\ RetOf("encode").err = RetOf("encode").val
          /\ CountIn(InnerEncodeEvents) = 0
          /\ \A i \in DOMAIN w.body : w.body[i] # <<"resp">>
          /\ w.ctype # "" => Count("WriteError") = 1

\* C4 witness: the response value's Validate returned an uncoded error in a
\* validating JSON encoder; the ErrorWriter got a 500 and no value was written.
C4_Witness ==
    /\ Failed("encode")
    /\ cfg.codec.enc = "json" /\ cfg.codec.encVal >= 1 /\ cfg.respT = "Validator"
    /\ RetOf("encode").val = ErrorsNew("invalid")
    /\ RetOf("encode").in = NilErr
    /\ ErrorHTTPStatus(werr[1], StatusBadRequest) = StatusInternalServerError
    /\ w.body = <<ErrorBody(cfg.ew, werr[1])>>

\* C5: with the None sentinel as request type the Decoder is never invoked,
\* whatever the method and the decoders registered, so the handler is always
\* reached; with None as response type and a handler that succeeded, neither
\* Encode nor WriteError is invoked and nothing is written to the response.
C5_NoneSkips ==
    /\ cfg.reqT = "None" =>
          /\ CountIn(DecodeEvents) = 0
          /\ ~Ran("decode")
          /\ pc \in {"encode", "done"} => Count("h") = 1
          /\ Count("Validate") > 0 => Count("Encode") = 1
    /\ (cfg.respT = "None" /\ Ran("invoke") /\ ~Failed("invoke")) =>
          /\ CountIn(EncodeEvents) = 0
          /\ Count("WriteError") = 0
          /\ w = NewWriter

\* C5 witness: a None-to-None handler served a POST under a codec whose
\* MethodDecoder has no entry at all, and returned without any write.
C5_Witness ==
    /\ pc = "done"
    /\ cfg.reqT = "None" /\ cfg.respT = "None"
    /\ cfg.method = "POST"
    /\ cfg.codec.dec = "method" /\ cfg.codec.reg = NoReg
    /\ log = <<"h">>
    /\ w = NewWriter

\* The decoder MethodDecoder.Decode has to pick: "" when there is none.
Picked(reg, method) ==
    IF method \in DOMAIN reg THEN reg[method]
    ELSE IF "*" \in DOMAIN reg THEN reg["*"]
    ELSE ""

EventOf(leaf) == IF leaf = "url" THEN "urlDecoder.Decode" ELSE "jsonEncoder.Decode"

\* C9: MethodDecoder.Decode invokes exactly one decoder, the one registered
\* under the request's method, else the one under "*"; with neither it invokes
\* none and returns an error carrying 405.  Under DefaultEncoder a GET is
\* decoded by the URL decoder alone (the JSON decoder, which reads the body,
\* is not invoked) and any other method by the JSON decoder alone.
C9_MethodDispatch ==
    /\ (Ran("decode") /\ cfg.codec.dec = "method") =>
          LET leaf == Picked(cfg.codec.reg, cfg.method) IN
          IF leaf = ""
          THEN /\ CountIn(LeafDecodeEvents) = 0
               /\ \A d \in Codes :
                     ErrorHTTPStatus(RetOf("decode").err, d) = StatusMethodNotAllowed
               /\ ErrorString(RetOf("decode").err)
                     = <<StatusMethodNotAllowed, "method not allowed">>
          ELSE /\ CountIn(LeafDecodeEvents) = 1
               /\ Count(EventOf(leaf)) = 1
    /\ (Ran("decode") /\ cfg.codec = DefaultEncoder) =>
          IF cfg.method = "GET"
          THEN Count("urlDecoder.Decode") = 1 /\ Count("jsonEncoder.Decode") = 0
          ELSE Count("urlDecoder.Decode") = 0 /\ Count("jsonEncoder.Decode") = 1

\* C9 witness: a POST under DefaultEncoder fell back to the "*" entry and was
\* decoded by the JSON decoder.
C9_Witness ==
    /\ cfg.codec = DefaultEncoder
    /\ cfg.method = "POST"
    /\ Ran("decode")
    /\ Count("jsonEncoder.Decode") = 1
    /\ Count("urlDecoder.Decode") = 0

(***************************************************************************)
(* Claims about URLDecoder, checked under SpecURL.                          *)
(***************************************************************************)
\* The fields the decoder's function has been called for.
Visited(i) ==
    /\ ustruct[i].exported
    /\ i < upos \/ (i = upos /\ uerr.done /\ uerr.err # NilErr)

\* The value a fresh field takes from the request string s.
Converted(f, s) == SetPrimitiveFromString(f, Zero(f), s).val

\* C10: for every exported field the decoder reads one source, chosen by the
\* tags in the order form, query, schema, url, json: a field with a form,
\* query or schema tag is read from the form value of that name only, also
\* when that value is empty; else a field with a url tag from the path
\* parameter of that name only; else a field with a json tag from the path
\* parameter of that name and, only if that is empty, from the form value.
C10_TagPrecedence ==
    \A i \in DOMAIN ustruct :
       Visited(i) =>
          LET f == ustruct[i]
              t == f.tags
              ftag == IF t["form"] # "" THEN t["form"]
                      ELSE IF t["query"] # "" THEN t["query"]
                      ELSE t["schema"]
          IN IF ftag # ""
             THEN /\ ureads[i] = <<Read("form", ftag)>>
                  /\ uval[i] = Converted(f, FormValue(ureq, ftag))
             ELSE IF t["url"] # ""
             THEN /\ ureads[i] = <<Read("url", t["url"])>>
                  /\ uval[i] = Converted(f, URLParam(ureq, t["url"]))
             ELSE IF t["json"] # ""
             THEN IF URLParam(ureq, t["json"]) # <<>>
                  THEN /\ ureads[i] = <<Read("url", t["json"])>>
                       /\ uval[i] = Converted(f, URLParam(ureq, t["json"]))
                  ELSE /\ ureads[i] = <<Read("url", t["json"]), Read("form", t["json"])>>
                       /\ uval[i] = Converted(f, FormValue(ureq, t["json"]))
             ELSE TRUE

\* C10 witness: a field tagged form:"a" and url:"a" was decoded from a request
\* whose path parameter a is set and whose form value a is empty: the field
\* stayed empty.
C10_Witness ==
    /\ uerr = Returned(NilErr)
    /\ Len(ustruct) = 1
    /\ ustruct[1].tags["form"] = "a" /\ ustruct[1].tags["url"] = "a"
    /\ URLParam(ureq, "a") = <<"1">>
    /\ "a" \in DOMAIN ureq.form /\ FormValue(ureq, "a") = <<>>
    /\ uval[1] = Zero(ustruct[1])

\* The decode of field i returned an error.
FailedAt(i) == uerr.done /\ uerr.err # NilErr /\ upos = i

Untagged(f) == \A t \in TagNames : f.tags[t] = ""

\* C11: for an untagged exported field the decoder searches the path
\* parameters for a key equal to the field name ignoring case and, if there is
\* one, uses its value without consulting the form; otherwise it searches the
\* form keys ignoring case and uses the first value of a matching key; with
\* no match the field is left unchanged and no error is returned.
C11_UntaggedSearch ==
    \A i \in DOMAIN ustruct :
       (Visited(i) /\ Untagged(ustruct[i])) =>
          LET f == ustruct[i]
              ph == {j \in DOMAIN ureq.params : EqualFold(ureq.params[j].k, f.name)}
              fk == {k \in DOMAIN ureq.form : EqualFold(k, f.name)}
          IN IF ph # {}
             THEN /\ \E j \in ph : uval[i] = Converted(f, ureq.params[j].v)
                  /\ \A r \in DOMAIN ureads[i] : ureads[i][r].src = "params"
             ELSE IF fk # {}
             THEN /\ \E k \in fk : uval[i] = Converted(f, ureq.form[k])
                  /\ \E r \in DOMAIN ureads[i] : ureads[i][r].src = "formkeys"
             ELSE uval[i] = Zero(f) /\ ~FailedAt(i)

\* C11 witness: an untagged field A took the value of the path parameter a
\* although the form has a different, non-empty value under a.
C11_Witness ==
    \E i \in DOMAIN ustruct :
       /\ Visited(i) /\ Untagged(ustruct[i])
       /\ \E j \in DOMAIN ureq.params : ureq.params[j] = [k |-> "a", v |-> <<"1">>]
       /\ "a" \in DOMAIN ureq.form /\ ureq.form["a"] = <<"x">>
       /\ uval[i].s = <<"1">>

\* The string the request holds for a tagged field, by the field's tags.
Found(f) ==
    IF f.tags["form"] # "" THEN FormValue(ureq, f.tags["form"])
    ELSE IF f.tags["query"] # "" THEN FormValue(ureq, f.tags["query"])
    ELSE IF f.tags["schema"] # "" THEN FormValue(ureq, f.tags["schema"])
    ELSE IF f.tags["url"] # "" THEN URLParam(ureq, f.tags["url"])
    ELSE IF URLParam(ureq, f.tags["json"]) # <<>> THEN URLParam(ureq, f.tags["json"])
    ELSE FormValue(ureq, f.tags["json"])

\* A fresh field that has been allocated if it is a pointer.
Fresh(f) == [Zero(f) EXCEPT !.isnil = FALSE]

\* C12: decoding a bool field never fails: any non-empty string, "false" and
\* "0" included, sets the field to true; an absent or empty value leaves the
\* field as it was, false (nil for a pointer to bool).
C12_BoolNonEmpty ==
    \A i \in DOMAIN ustruct :
       (Visited(i) /\ ustruct[i].kind = "bool" /\ ~Untagged(ustruct[i])) =>
          LET f == ustruct[i] IN
          /\ ~FailedAt(i)
          /\ Found(f) # <<>> => uval[i] = [Fresh(f) EXCEPT !.b = TRUE]
          /\ Found(f) = <<>> => uval[i] = Zero(f) /\ ~uval[i].b

\* C12 witness: a bool field was decoded from the string false and is true.
C12_Witness ==
    \E i \in DOMAIN ustruct :
       /\ Visited(i) /\ ustruct[i].kind = "bool" /\ ~ustruct[i].ptr
       /\ Found(ustruct[i]) = <<"f", "a", "l", "s", "e">>
       /\ uval[i].b

\* Whether the non-empty string s is a value of the field's type, and the
\* field that holds it.
Parsable(f, s) ==
    CASE f.kind = "string" -> TRUE
      [] f.kind = "bool" -> TRUE
      [] f.kind = "int" -> ParseInt(s, f.bits).ok
      [] f.kind = "uint" -> ParseUint(s, f.bits).ok
      [] f.kind = "float" -> ParseFloat(s, f.bits).ok
      [] OTHER -> f.hook /\ UnmarshalText(s).ok

Holding(f, s) ==
    CASE f.kind = "string" -> [Fresh(f) EXCEPT !.s = s]
      [] f.kind = "bool" -> [Fresh(f) EXCEPT !.b = TRUE]
      [] f.kind = "int" -> [Fresh(f) EXCEPT !.n = ParseInt(s, f.bits).n]
      [] f.kind = "uint" -> [Fresh(f) EXCEPT !.n = ParseUint(s, f.bits).n]
      [] f.kind = "float" -> [Fresh(f) EXCEPT !.x = ParseFloat(s, f.bits).x]
      [] OTHER -> [Fresh(f) EXCEPT !.t = UnmarshalText(s).t]

\* C13: for every exported field, an absent or empty source value leaves the
\* field as it was (the zero value, nil for a pointer) without error; a
\* non-empty parsable value sets a non-pointer field to the parsed value and
\* a pointer field to a newly allocated pointee holding it.  Unexported
\* fields are never modified.
C13_FrameAndSet ==
    \A i \in DOMAIN ustruct :
       LET f == ustruct[i] IN
       /\ ~f.exported => uval[i] = Zero(f) /\ ureads[i] = <<>>
       /\ (Visited(i) /\ ~Untagged(f)) =>
             /\ Found(f) = <<>> => uval[i] = Zero(f) /\ ~FailedAt(i)
             /\ (Found(f) # <<>> /\ Parsable(f, Found(f))) =>
                   /\ ~FailedAt(i)
                   /\ ~uval[i].isnil
                   /\ uval[i] = Holding(f, Found(f))

\* C13 witness: a decode is over in which a nil pointer to int became a
\* pointer to 1 and an unexported field whose form value is x was passed by.
C13_Witness ==
    /\ uerr = Returned(NilErr)
    /\ \E i, j \in DOMAIN ustruct :
          /\ ustruct[i].ptr /\ ustruct[i].kind = "int" /\ ustruct[i].exported
          /\ ~uval[i].isnil /\ uval[i].n = 1
          /\ ~ustruct[j].exported
          /\ Found(ustruct[j]) = <<"x">>
          /\ uval[j] = Zero(ustruct[j])

(***************************************************************************)
(* Further claims about Handler.ServeHTTP, checked under Spec.              *)
(***************************************************************************)
\* The calls of Validate during Decode, and those during Encode.
DecodeValidates ==
    Cardinality({i \in DOMAIN log :
                    /\ log[i] = "Validate"
                    /\ \A j \in 1..i : log[j] \notin {"h", "Encode"}})

EncodeValidates ==
    Cardinality({i \in DOMAIN log :
                    /\ log[i] = "Validate"
                    /\ \E j \in 1..i : log[j] = "Encode"})

\* C14 as claimed: Validate is applied exactly once per Decode call and
\* exactly once per Encode call of a validating codec, also when validating
\* wrappers are composed; on decode it runs only after the inner decoder
\* succeeded, and its error is returned unchanged.
C14_ValidateOnce ==
    /\ (Ran("decode") /\ cfg.reqT = "Validator" /\ cfg.codec.decVal >= 1) =>
          LET r == RetOf("decode") IN
          /\ CountIn(LeafDecodeEvents) = 0 => DecodeValidates = 0
          /\ (CountIn(LeafDecodeEvents) = 1 /\ r.in # NilErr) =>
                DecodeValidates = 0 /\ r.err = r.in
          /\ (CountIn(LeafDecodeEvents) = 1 /\ r.in = NilErr) =>
                DecodeValidates = 1 /\ r.err = r.val
    /\ (Ran("encode") /\ cfg.respT = "Validator" /\ cfg.codec.encVal >= 1) =>
          EncodeValidates = 1

\* The Opts the call works with.
CallOpts == Opts(cfg.codec, cfg.ew)

ContentTypeOf(ew) == IF ew = "json" THEN "application/json" ELSE "text/plain"

\* C15: OptsFromContext never fails: for a context without injected Opts it
\* returns DefaultOpts, for a context with Opts injected by WithOpts or Use
\* it returns exactly those; ServeHTTP looks the Opts up once per call and
\* works with the same Encoder and ErrorWriter in all phases of the call.
C15_OptsLookup ==
    /\ [](pc \in {"decode", "invoke", "encode", "done"} =>
            /\ rctx["routerOptsCtxKey"] = NoValue => CallOpts = DefaultOpts
            /\ rctx["routerOptsCtxKey"] # NoValue =>
                  CallOpts = rctx["routerOptsCtxKey"]
            /\ \A o \in {DefaultOpts, CallOpts} :
                  /\ OptsFromContext(WithOpts(ctx, o)) = o
                  /\ OptsFromContext(Use(o, rctx)) = o
            /\ Count("jsonEncoder.Encode") > 0 =>
                  OptsFromContext(rctx).Encoder.enc = "json"
            /\ Count("UnencodableEncoder.Encode") > 0 =>
                  OptsFromContext(rctx).Encoder.enc = "unencodable"
            /\ Count("WriteError") = 1 =>
                  w.ctype = ContentTypeOf(OptsFromContext(rctx).ErrorWriter))
    /\ [][(pc # "idle" /\ pc # "done") =>
            (cfg'.codec = cfg.codec /\ cfg'.ew = cfg.ew)]_vars

\* C15 witness: a call whose request carries no Opts went through decode and
\* handler under DefaultEncoder and its failed Encode was reported by the
\* default JSON error writer.
C15_Witness ==
    /\ pc = "done"
    /\ rctx["routerOptsCtxKey"] = NoValue
    /\ CallOpts = DefaultOpts
    /\ Ran("decode") /\ Failed("encode")
    /\ w.ctype = "application/json"

\* C19: whenever the handler is invoked, the context it receives carries the
\* request that was passed to ServeHTTP, so RequestFromContext returns that
\* request, and still carries the Opts of the request's context.
C19_RequestInContext ==
    Count("h") = 1 =>
       /\ RequestFromContext(hctx) = Request(cfg.method, rctx)
       /\ hctx["routerOptsCtxKey"] = rctx["routerOptsCtxKey"]
       /\ OptsFromContext(hctx) = OptsFromContext(rctx)

\* C19 witness: the handler of a POST was invoked for a request whose context
\* already carried the request of an enclosing handler and injected Opts, and
\* got the POST.
C19_Witness ==
    /\ Count("h") = 1
    /\ cfg.method = "POST"
    /\ rctx["requestCtxKey"] = OuterRequest
    /\ rctx["routerOptsCtxKey"] = DefaultOpts
    /\ RequestFromContext(hctx).method = "POST"

\* C16: both standard ErrorWriters write the status ErrorHTTPStatus(err, 500),
\* the code err carries anywhere in its chain or 500, and set the content type
\* before the status; TextErrorWriter writes the message and a newline,
\* JSONErrorWriter("error") an object with the single key error whose value
\* is err.Error(), for a coded error the code followed by the cause's message.
C16_ErrorWriters ==
    Count("WriteError") = 1 =>
       LET err == werr[1] IN
       /\ w.status = (IF \E i \in DOMAIN err : IsHTTPError(err[i])
                      THEN err[CHOOSE i \in DOMAIN err :
                                  /\ IsHTTPError(err[i])
                                  /\ \A j \in 1..(i - 1) : ~IsHTTPError(err[j])].code
                      ELSE StatusInternalServerError)
       /\ w.ctype = (IF cfg.ew = "text" THEN "text/plain" ELSE "application/json")
       /\ Len(w.body) = 1
       /\ cfg.ew = "text" => w.body[1] = <<"text", ErrorString(err), "\n">>
       /\ cfg.ew = "json" =>
             /\ w.body[1][1] = "json"
             /\ DOMAIN w.body[1][2] = {"error"}
             /\ w.body[1][2]["error"] = ErrorString(err)
       /\ (err[1].kind = "wrapped" /\ Len(err) > 1) =>
             ErrorString(err) = <<err[1].code>> \o ErrorString(Tail(err))

\* C16 witness: the handler returned a plain error wrapping a 404 error, and
\* the JSON error writer answered 404 with that error's message.
C16_Witness ==
    /\ Failed("invoke")
    /\ cfg.ew = "json"
    /\ Len(werr[1]) = 2
    /\ werr[1][1].kind = "plain"
    /\ werr[1][2].kind = "wrapped" /\ werr[1][2].code = StatusNotFound
    /\ w.status = StatusNotFound
    /\ w.ctype = "application/json"

(***************************************************************************)
(* Further claims about URLDecoder, checked under SpecURL.                  *)
(***************************************************************************)
\* The name SetPrimitiveFromString gives a failed conversion of the kind.
KindError(kind) ==
    CASE kind = "int" -> "invalid int"
      [] kind = "uint" -> "invalid uint"
      [] kind = "float" -> "invalid float"
      [] OTHER -> ""

\* The range of an integer field of the kind and bit size.
InRange(kind, bits, n) ==
    IF kind = "int" THEN 0 - 2 ^ (bits - 1) <= n /\ n <= 2 ^ (bits - 1) - 1
    ELSE 0 <= n /\ n <= 2 ^ bits - 1

\* C17: decoding a non-empty string into a signed integer, unsigned integer
\* or float field fails with an error that names the kind and wraps the parse
\* error whenever the string is not a number of that kind or is outside the
\* range of the field's bit size; a value is never truncated or wrapped
\* around, and Decode returns that error.
C17_NumericErrors ==
    \A i \in DOMAIN ustruct :
       LET f == ustruct[i]
           s == Found(f)
       IN (/\ Visited(i) /\ ~Untagged(f)
           /\ f.kind \in {"int", "uint", "float"}
           /\ s # <<>>) =>
             /\ ~Parsable(f, s) =>
                   /\ FailedAt(i)
                   /\ Len(uerr.err) = 2
                   /\ uerr.err[1] = PlainLayer(KindError(f.kind))
                   /\ uerr.err[2].kind = "plain"
                   /\ uval[i].n = 0 /\ uval[i].x = ZeroFloat
             /\ Parsable(f, s) => ~FailedAt(i)
             /\ f.kind \in {"int", "uint"} =>
                   /\ InRange(f.kind, f.bits, uval[i].n)
                   /\ (AllDigits(s) /\ ~InRange(f.kind, f.bits, DigitsValue(s))) =>
                         FailedAt(i) /\ uval[i].n = 0
                   /\ (f.kind = "uint" /\ s[1] = "-") => FailedAt(i)

\* C17 witness: Decode returned the error "invalid int" for the string 200
\* and an 8-bit signed field, which holds no number.
C17_Witness ==
    \E i \in DOMAIN ustruct :
       /\ FailedAt(i)
       /\ ustruct[i].kind = "int" /\ ustruct[i].bits = 8
       /\ Found(ustruct[i]) = <<"2", "0", "0">>
       /\ uerr.err[1] = PlainLayer("invalid int")
       /\ uval[i].n = 0

Primitive(f) == f.kind \in {"string", "int", "uint", "float", "bool"}

\* C18 as claimed: a field, or the pointee of a pointer field, that is of no
\* primitive kind and implements the text-unmarshaling hook is populated by
\* the hook from the non-empty string, a failure of the hook being returned;
\* a field of a primitive kind is set by the primitive conversion, never by
\* its hook; a field that is neither primitive nor text-unmarshalable is left
\* unchanged, without error.
C18_TextHook ==
    \A i \in DOMAIN ustruct :
       LET f == ustruct[i]
           s == Found(f)
       IN (Visited(i) /\ ~Untagged(f) /\ s # <<>>) =>
             /\ (~Primitive(f) /\ f.hook) =>
                   IF UnmarshalText(s).ok
                   THEN ~FailedAt(i) /\ uval[i] = [Fresh(f) EXCEPT !.t = UnmarshalText(s).t]
                   ELSE /\ FailedAt(i)
                        /\ uerr.err = ErrorsWrap(UnmarshalText(s).err, "text unmarshaling")
             /\ Primitive(f) => uval[i].t = <<>>
             /\ (Primitive(f) /\ Parsable(f, s)) => uval[i] = Holding(f, s)
             /\ (~Primitive(f) /\ ~f.hook) => uval[i] = Zero(f) /\ ~FailedAt(i)

(***************************************************************************)
(* Claims about concurrent calls, checked under SpecConc.                   *)
(***************************************************************************)
\* The call as it was handed to ServeHTTP.
Start(c) == [c EXCEPT !.pc = "start", !.opts = NoValue, !.w = NewWriter]

\* The call run alone, from start to end, with DefaultOpts as released.
Alone(c) == EncodeF(InvokeF(DecodeF(LookupF(Start(c), DefaultOpts))))

\* C20: concurrent calls of ServeHTTP do not interfere: no step writes
\* shared state (DefaultOpts stays as it was, a step of one call leaves the
\* other calls as they were), so under every interleaving of the steps each
\* call produces the response it produces when run alone.
C20_NoInterference ==
    /\ [](/\ defaultOpts = DefaultOpts
          /\ \A i \in DOMAIN calls :
                calls[i].pc = "done" => calls[i].w = Alone(calls[i]).w)
    /\ [][\E i \in DOMAIN calls :
             \A j \in DOMAIN calls \ {i} : calls'[j] = calls[j]]_vars

\* C20 witness: a call under the default Opts has answered with the JSON error
\* writer while a call under injected Opts is in flight between its decode
\* and its handler.
C20_Witness ==
    /\ calls[1].pc = "done"
    /\ calls[1].rctx = Background
    /\ calls[1].in.hErr # NilErr
    /\ calls[1].w.ctype = "application/json"
    /\ calls[2].pc = "invoke"
    /\ calls[2].rctx # Background
    /\ calls[2].opts = TextOpts

(***************************************************************************)
(* Claims about failed decodes, checked under SpecURL.                      *)
(***************************************************************************)
\* C21 as claimed: when SetPrimitiveFromString returns an error for a field,
\* the field is left as it was before the call, a pointer field staying nil;
\* and a Decode that fails on a field stops there: the fields declared after
\* it are untouched, those declared before it keep their decoded values.
C21_ErrorLeavesField ==
    \A i \in DOMAIN ustruct :
       FailedAt(i) =>
          /\ uval[i] = Zero(ustruct[i])
          /\ ustruct[i].ptr => uval[i].isnil
          /\ \A j \in DOMAIN ustruct :
                /\ j > i => uval[j] = Zero(ustruct[j]) /\ ureads[j] = <<>>
                /\ (j < i /\ ustruct[j].exported /\ ~Untagged(ustruct[j])
                          /\ Found(ustruct[j]) # <<>>
                          /\ Parsable(ustruct[j], Found(ustruct[j]))) =>
                      uval[j] = Holding(ustruct[j], Found(ustruct[j]))

(***************************************************************************)
(* Claims about repeated decodes, checked under SpecTwice.                  *)
(***************************************************************************)
\* C22 as claimed: Decode is deterministic: two decodes of the same request
\* into fresh structs of the same type yield equal structs and equal errors,
\* also for an untagged field when several form keys equal the field name up
\* to letter case and hold different values.
C22_Deterministic ==
    (ufirst # NoOutcome /\ uerr.done) =>
       /\ uval = ufirst.val
       /\ uerr.err = ufirst.err

====
